---- MODULE Spec2Model ----
(***************************************************************************)
(* The change-application engine of apply-json-changes.ts: applyJsonChanges *)
(* and its five handlers over a File System Access directory tree.         *)
(*                                                                         *)
(* Text is a sequence of one-character strings, a line is a text without   *)
(* meaning attached to "\n" (a line given in a change record may contain   *)
(* it), a file holds one text.  A path is the sequence of its parts, that  *)
(* is the value of fullPath.split('/').filter(Boolean).                    *)
(***************************************************************************)
EXTENDS Integers, Sequences, FiniteSets, TLC

VARIABLES
  tree,        \* the directory tree under rootDirHandle: node path -> entry
  envelope,    \* shape of the changesJson argument
  nChanges,    \* changesJson.changes.length when changes is an array
  version,     \* changesJson.version
  batch,       \* the records of changesJson.changes where they are fixed beforehand
  first,       \* history: how an earlier application of the same changes ended
  i,           \* 1-based position of the for-of loop of applyJsonChanges
  change,      \* the record the loop is at
  pc,          \* the await the engine is at
  error,       \* the reason applyJsonChanges rejected with ("" while none)
  currentDir,  \* getParentDirectoryAndFileName: currentDir
  parts,       \* getParentDirectoryAndFileName: parts not yet walked, file name last
  oldDir,      \* renameMoveFile: oldDir
  oldFile,     \* renameMoveFile: oldFile
  fileLines,   \* partialUpdate: fileLines; renameMoveFile: oldText.split('\n')
  editNo,      \* partialUpdate: number of edits the for-of loop has taken
  edit,        \* partialUpdate: the edit taken last
  linesBefore, \* history: fileLines before the edit taken last
  taken,       \* history: the edits the loop has taken for this record
  outcomes,    \* history: how the edits of the current record ended so far
  treeBefore,  \* history: tree when the current record was dispatched
  prev,        \* history: the last record that completed before the current one
  lastCall     \* history: index of the record that made the latest storage call

vars == <<tree, envelope, nChanges, version, batch, first, i, change, pc, error,
          currentDir, parts,
          oldDir, oldFile, fileLines, editNo, edit, linesBefore, taken, outcomes,
          treeBefore, prev, lastCall>>

(***************************************************************************)
(* Bounds of the model.                                                    *)
(***************************************************************************)
MaxBatch == 2     \* records in a batch
MaxEdits == 2     \* edits in one partial_update
MaxLines == 3     \* lines of a file the edit loop starts from

(***************************************************************************)
(* Text: String.prototype.trim, Array.prototype.join('\n'), split('\n').   *)
(***************************************************************************)
NL == "\n"

\* The characters trim strips that the model's texts use.
WhiteSpace == {" ", "\t", "\r", NL}

RECURSIVE TrimStart(_)
TrimStart(s) ==
  IF s # <<>> /\ Head(s) \in WhiteSpace THEN TrimStart(Tail(s)) ELSE s

RECURSIVE TrimEnd(_)
TrimEnd(s) ==
  IF s # <<>> /\ s[Len(s)] \in WhiteSpace
    THEN TrimEnd(SubSeq(s, 1, Len(s) - 1))
    ELSE s

\* line.trim()
Trim(s) == TrimEnd(TrimStart(s))

\* lines.join('\n')
RECURSIVE Join(_)
Join(lines) ==
  IF lines = <<>> THEN <<>>
  ELSE IF Len(lines) = 1 THEN lines[1]
  ELSE lines[1] \o <<NL>> \o Join(Tail(lines))

\* text.split('\n'): never empty, "" splits to [""]
RECURSIVE SplitFrom(_, _)
SplitFrom(text, cur) ==
  IF text = <<>> THEN <<cur>>
  ELSE IF Head(text) = NL THEN <<cur>> \o SplitFrom(Tail(text), <<>>)
  ELSE SplitFrom(Tail(text), Append(cur, Head(text)))

Split(text) == SplitFrom(text, <<>>)

(***************************************************************************)
(* Numbers an occurrence_index can hold: integers and halves (den = 2).    *)
(***************************************************************************)
Num(k) == [type |-> "number", num |-> k, den |-> 1]
HalfNum(k) == [type |-> "number", num |-> k, den |-> 2]
Undefined == [type |-> "undefined", num |-> 0, den |-> 1]

\* n < x for an integer n and a number x
IntLess(n, x) == n * x.den < x.num

\* x names an element of an array of length len after x - 1: array[x - 1]
IsElementIndex(x, len) == x.den = 1 /\ x.num >= 1 /\ x.num <= len

(***************************************************************************)
(* Arrays as JSON gives them: a field that should hold an array may hold   *)
(* any other value (a string, an object, nothing).                         *)
(***************************************************************************)
Arr(items) == [isArray |-> TRUE, items |-> items]
NotAnArray == [isArray |-> FALSE, items |-> <<>>]

\* Array.isArray(v)
IsArray(v) == v.isArray

(***************************************************************************)
(* The Context Matcher.  Start indices are 0-based as in the source, the   *)
(* sequences of the model are 1-based: lines[i + j] there is lines[i+j+1]  *)
(***************************************************************************)
\* a faulty comparison: letter case is ignored as well
LinesMatch_IgnoreCase(fileLine, contextLine) ==
  LET Lower(t) == [k \in 1..Len(t) |-> IF t[k] = "M" THEN "m" ELSE t[k]]
  IN  Lower(Trim(fileLine)) = Lower(Trim(contextLine))

\* fileLineTrimmed === contextLineTrimmed
LinesMatch(fileLine, contextLine) == Trim(fileLine) = Trim(contextLine)

\* the inner for loop: every context line equals the file line at s + j after trim
BlockMatchesAt(lines, matchContext, s) ==
  \A j \in 0..(Len(matchContext) - 1) :
    LinesMatch(lines[s + j + 1], matchContext[j + 1])

\* the outer for loop from s on: occurrences pushed in ascending order
RECURSIVE ScanFrom(_, _, _)
ScanFrom(lines, matchContext, s) ==
  IF s > Len(lines) - Len(matchContext) THEN <<>>
  ELSE (IF BlockMatchesAt(lines, matchContext, s) THEN <<s>> ELSE <<>>)
         \o ScanFrom(lines, matchContext, s + 1)

\* A context line that JSON gave as a number: x.trim() is no function and the
\* comparison raises a TypeError.  The lines of a file are always strings.
NotAString == <<"number">>
IsString(line) == line # NotAString

\* the scan raises: at some start index the inner loop reaches a context
\* line that is no string, all context lines before it having matched
ScanRaises(lines, matchContext) ==
  \E s \in 0..(Len(lines) - Len(matchContext)) :
    \E j \in 1..Len(matchContext) :
      /\ ~IsString(matchContext[j])
      /\ \A n \in 1..(j - 1) : LinesMatch(lines[s + n], matchContext[n])

\* a faulty scan: the loop stops one start index early, i < maxStart
findAllContextMatches_StopsEarly(lines, matchContext) ==
  SelectSeq(ScanFrom(lines, matchContext, 0),
            LAMBDA s : s < Len(lines) - Len(matchContext))

findAllContextMatches(lines, matchContext) ==
  ScanFrom(lines, matchContext, 0)

\* a faulty replaceContextBlock: the block cut out is as long as the
\* replacement, end = start + replacementLines.length
replaceContextBlock_EndByReplacement(lines, matchContext, occurrenceIndex, replacementLines) ==
  LET indices == findAllContextMatches(lines, matchContext)
      found == IsElementIndex(occurrenceIndex, Len(indices))
      start == IF found THEN indices[occurrenceIndex.num] ELSE 0
      end == start + Len(replacementLines)
      before == IF found THEN SubSeq(lines, 1, start) ELSE lines
      after == IF found THEN SubSeq(lines, end + 1, Len(lines)) ELSE lines
  IN  IF IntLess(Len(indices), occurrenceIndex)
        THEN lines
        ELSE before \o replacementLines \o after

\* a faulty replaceContextBlock: occurrenceIndex is taken as 0-based,
\* indices[occurrenceIndex]
replaceContextBlock_ZeroBased(lines, matchContext, occurrenceIndex, replacementLines) ==
  LET indices == findAllContextMatches(lines, matchContext)
      found == IsElementIndex(Num(occurrenceIndex.num + 1), Len(indices))
                 /\ occurrenceIndex.den = 1
      start == IF found THEN indices[occurrenceIndex.num + 1] ELSE 0
      end == start + Len(matchContext)
      before == IF found THEN SubSeq(lines, 1, start) ELSE lines
      after == IF found THEN SubSeq(lines, end + 1, Len(lines)) ELSE lines
  IN  IF IntLess(Len(indices), occurrenceIndex)
        THEN lines
        ELSE before \o replacementLines \o after

\* a faulty replaceContextBlock: the check of indices.length is left out
replaceContextBlock_NoGuard(lines, matchContext, occurrenceIndex, replacementLines) ==
  LET indices == findAllContextMatches(lines, matchContext)
      found == IsElementIndex(occurrenceIndex, Len(indices))
      start == IF found THEN indices[occurrenceIndex.num] ELSE 0
      end == start + Len(matchContext)
      before == IF found THEN SubSeq(lines, 1, start) ELSE lines
      after == IF found THEN SubSeq(lines, end + 1, Len(lines)) ELSE lines
  IN  before \o replacementLines \o after

\* lines.slice(0, start) and lines.slice(end) where start is
\* indices[occurrenceIndex - 1]: an index the array does not hold reads as
\* undefined, slice(0, undefined) and slice(NaN) both copy the whole array.
replaceContextBlock(lines, matchContext, occurrenceIndex, replacementLines) ==
  LET indices == findAllContextMatches(lines, matchContext)
      found == IsElementIndex(occurrenceIndex, Len(indices))
      start == IF found THEN indices[occurrenceIndex.num] ELSE 0
      end == start + Len(matchContext)
      before == IF found THEN SubSeq(lines, 1, start) ELSE lines
      after == IF found THEN SubSeq(lines, end + 1, Len(lines)) ELSE lines
  IN  IF IntLess(Len(indices), occurrenceIndex)
        THEN lines
        ELSE before \o replacementLines \o after

\* a faulty occurrenceIdx: the default is 0
occurrenceIdx_DefaultZero(e) ==
  IF e.occurrence_index.type = "number" THEN e.occurrence_index ELSE Num(0)

\* typeof occurrence_index === 'number' ? occurrence_index : 1
occurrenceIdx(e) ==
  IF e.occurrence_index.type = "number" THEN e.occurrence_index ELSE Num(1)

\* a faulty loop body: only match_context is checked, a replacement that is
\* no array counts as no lines
applyEdit_OnlyContextChecked(lines, e) ==
  IF ~IsArray(e.match_context)
    THEN lines
    ELSE replaceContextBlock(lines, e.match_context.items, occurrenceIdx(e),
                             e.replacement.items)

\* the body of the for-of loop over edits: the value fileLines has after it
applyEdit(lines, e) ==
  IF ~IsArray(e.match_context) \/ ~IsArray(e.replacement)
    THEN lines
    ELSE replaceContextBlock(lines, e.match_context.items, occurrenceIdx(e),
                             e.replacement.items)

(***************************************************************************)
(* The storage backend: the File System Access API calls the engine makes. *)
(* A node is named by its path from the root; the root itself always       *)
(* exists.                                                                 *)
(***************************************************************************)
File(text) == [kind |-> "file", text |-> text]
Directory == [kind |-> "directory", text |-> <<>>]

Exists(t, node) == node \in DOMAIN t
IsFile(t, node) == Exists(t, node) /\ t[node].kind = "file"
IsDirectory(t, node) == Exists(t, node) /\ t[node].kind = "directory"
Children(t, node) ==
  {n \in DOMAIN t : Len(n) = Len(node) + 1 /\ SubSeq(n, 1, Len(node)) = node}

\* t with node set to entry e (added when absent)
Put(t, node, e) ==
  [n \in DOMAIN t \cup {node} |-> IF n = node THEN e ELSE t[n]]

\* t without node
Drop(t, node) == [n \in DOMAIN t \ {node} |-> t[n]]

Ok(t) == [ok |-> TRUE, err |-> "", tree |-> t]
Fail(e, t) == [ok |-> FALSE, err |-> e, tree |-> t]

\* a faulty getDirectoryHandle: a missing directory is not created
getDirectoryHandleCreate_NoCreate(t, dir, name) ==
  LET node == Append(dir, name)
  IN  IF IsFile(t, node) THEN Fail("TypeMismatchError", t)
      ELSE IF IsDirectory(t, node) THEN Ok(t)
      ELSE Fail("NotFoundError", t)

\* dir.getDirectoryHandle(name, { create: true })
getDirectoryHandleCreate(t, dir, name) ==
  LET node == Append(dir, name)
  IN  IF IsFile(t, node) THEN Fail("TypeMismatchError", t)
      ELSE IF IsDirectory(t, node) THEN Ok(t)
      ELSE Ok(Put(t, node, Directory))

\* dir.getFileHandle(name)
getFileHandle(t, dir, name) ==
  LET node == Append(dir, name)
  IN  IF IsDirectory(t, node) THEN Fail("TypeMismatchError", t)
      ELSE IF IsFile(t, node) THEN Ok(t)
      ELSE Fail("NotFoundError", t)

\* a faulty getFileHandle with create: a file that is there is refused
getFileHandleCreate_RefusesExisting(t, dir, name) ==
  LET node == Append(dir, name)
  IN  IF IsDirectory(t, node) THEN Fail("TypeMismatchError", t)
      ELSE IF IsFile(t, node) THEN Fail("InvalidModificationError", t)
      ELSE Ok(Put(t, node, File(<<>>)))

\* dir.getFileHandle(name, { create: true })
getFileHandleCreate(t, dir, name) ==
  LET node == Append(dir, name)
  IN  IF IsDirectory(t, node) THEN Fail("TypeMismatchError", t)
      ELSE IF IsFile(t, node) THEN Ok(t)
      ELSE Ok(Put(t, node, File(<<>>)))

\* dir.removeEntry(name, { recursive: false })
removeEntry(t, dir, name) ==
  LET node == Append(dir, name)
  IN  IF ~Exists(t, node) THEN Fail("NotFoundError", t)
      ELSE IF IsDirectory(t, node) /\ Children(t, node) # {}
        THEN Fail("InvalidModificationError", t)
      ELSE Ok(Drop(t, node))

\* a faulty writeToFile: the writable keeps the existing data and appends
writeToFile_Append(t, node, lines) ==
  Put(t, node, File(t[node].text \o Join(lines)))

\* writeToFile: createWritable, write(lines.join('\n')), close
writeToFile(t, node, lines) == Put(t, node, File(Join(lines)))

\* (await fileHandle.getFile()).text() then split('\n')
readLines(t, node) == Split(t[node].text)

(***************************************************************************)
(* Inputs.  A record is read by the loop only when the loop reaches it and *)
(* an edit only when the edit loop reaches it, so each is drawn there.     *)
(***************************************************************************)
LM == <<"M">>
LPadM == <<" ", "M", " ">>
LX == <<"X">>
LBroken == <<"X", NL, "M">>     \* one line that holds a line break

Paths == {<<"f">>, <<"d">>, <<"d", "f">>}

Contents == {<<>>, <<LM>>, <<LX, LM>>, <<LBroken>>}

TextA == Join(<<LM, LPadM>>)
TextB == Join(<<LX>>)

InitTrees ==
  { Put(Put(<<>>, <<"f">>, File(TextA)), <<"d">>, Directory),
    Put(Put(<<>>, <<"d">>, Directory), <<"d", "f">>, File(TextB)),
    Put(<<>>, <<"f">>, File(TextB)),
    <<>> }

Record(type, path, old_path, new_path, content, new_content, edits) ==
  [type |-> type, path |-> path, old_path |-> old_path, new_path |-> new_path,
   content |-> content, new_content |-> new_content, edits |-> edits]

NoEdits == [isArray |-> TRUE, length |-> 0]
NoRecord == Record("", <<>>, <<>>, <<>>, <<>>, <<>>, NoEdits)

Records ==
  {Record("create", p, <<>>, <<>>, c, <<>>, NoEdits) : p \in Paths, c \in Contents}
  \cup {Record("delete", p, <<>>, <<>>, <<>>, <<>>, NoEdits) : p \in Paths}
  \cup {Record("complete_update", p, <<>>, <<>>, <<>>, c, NoEdits) :
          p \in Paths, c \in Contents}
  \cup {Record("partial_update", p, <<>>, <<>>, <<>>, <<>>,
               [isArray |-> TRUE, length |-> n]) : p \in Paths, n \in 0..MaxEdits}
  \cup {Record("partial_update", p, <<>>, <<>>, <<>>, <<>>,
               [isArray |-> FALSE, length |-> 0]) : p \in Paths}
  \cup {Record("rename_move", <<>>, p, q, <<>>, <<>>, NoEdits) :
          p \in Paths, q \in Paths}
  \cup {Record("unknown_type", p, <<>>, <<>>, <<>>, <<>>, NoEdits) : p \in {<<"f">>}}

Edit(match_context, occurrence_index, replacement) ==
  [match_context |-> match_context, occurrence_index |-> occurrence_index,
   replacement |-> replacement]

NoEdit == Edit(NotAnArray, Undefined, NotAnArray)

LS == <<"S">>

Edits ==
  {Edit(Arr(<<LM>>), k, Arr(<<LX>>)) : k \in {Undefined, Num(1), Num(2), Num(3)}}
  \cup {Edit(Arr(<<LX>>), Undefined, Arr(<<LS>>))}
  \cup {Edit(Arr(<<NotAString>>), Undefined, Arr(<<LX>>))}
  \cup {Edit(NotAnArray, Undefined, Arr(<<LX>>)),
        Edit(Arr(<<LM>>), Undefined, NotAnArray)}

Envelopes == {"null", "missing", "object", "array"}

\* version?: number
Versions == {Undefined, Num(1), Num(2)}

\* changesJson.changes given record by record: the loop draws each from Records
FreeBatch == [fixed |-> FALSE, record |-> NoRecord, edits |-> <<>>]
NoFirst ==
  [ran |-> FALSE, version |-> Undefined, pc |-> "", error |-> "", tree |-> <<>>,
   held |-> TRUE]

\* the records the loop can find at its position, the edits the edit loop
\* can find at its position
RecordsAt == IF batch.fixed THEN {batch.record} ELSE Records
EditsAt == IF batch.fixed THEN {batch.edits[editNo + 1]} ELSE Edits

\* how one edit ends on the lines it is applied to
EditOutcome(lines, e) ==
  IF ~IsArray(e.match_context) \/ ~IsArray(e.replacement) THEN "malformed"
  ELSE IF ScanRaises(lines, e.match_context.items) THEN "raises"
  ELSE IF IntLess(Len(findAllContextMatches(lines, e.match_context.items)),
                  occurrenceIdx(e))
    THEN "missing"
  ELSE "replaced"

(***************************************************************************)
(* applyJsonChanges                                                        *)
(***************************************************************************)
Init ==
  /\ tree \in InitTrees
  /\ envelope \in Envelopes
  /\ version = (IF envelope = "null" THEN Undefined ELSE Num(1))
  /\ batch = FreeBatch
  /\ first = NoFirst
  /\ nChanges \in 0..MaxBatch
  /\ (envelope # "array" => nChanges = 1)
  /\ i = 1
  /\ change = NoRecord
  /\ pc = "validate"
  /\ error = ""
  /\ currentDir = <<>>
  /\ parts = <<>>
  /\ oldDir = <<>>
  /\ oldFile = ""
  /\ fileLines = <<>>
  /\ editNo = 0
  /\ edit = NoEdit
  /\ linesBefore = <<>>
  /\ taken = <<>>
  /\ outcomes = {}
  /\ treeBefore = tree
  /\ prev = NoRecord
  /\ lastCall = 0

locals == <<currentDir, parts, oldDir, oldFile, fileLines, editNo, edit,
            linesBefore, taken, outcomes>>
input == <<envelope, nChanges, version, batch, first>>

\* a faulty Throw: the error is recorded and the loop goes on
Throw_Swallowed(e) ==
  /\ pc' = "loop"
  /\ error' = e
  /\ i' = i + 1
  /\ prev' = prev

\* throw: the promise rejects with e, nothing else runs
Throw(e) ==
  /\ pc' = "rejected"
  /\ error' = e
  /\ UNCHANGED <<i, prev>>

\* a faulty Return: the loop does not move on and takes the record again
Return_NoAdvance ==
  /\ pc' = "loop"
  /\ i' = i
  /\ prev' = change
  /\ error' = error

\* the handler returns and the loop moves to the next record
Return ==
  /\ pc' = "loop"
  /\ i' = i + 1
  /\ prev' = change
  /\ error' = error

\* a faulty Validate: the envelope is not checked
Validate_NoCheck ==
  /\ pc = "validate"
  /\ pc' = "loop"
  /\ UNCHANGED <<i, prev, error>>
  /\ UNCHANGED <<tree, input, change, locals, treeBefore, lastCall>>

\* a faulty Validate: a batch without a version number is rejected too
Validate_VersionRequired ==
  /\ pc = "validate"
  /\ IF envelope # "array" \/ version.type # "number"
       THEN Throw("InvalidFormat")
       ELSE pc' = "loop" /\ UNCHANGED <<i, prev, error>>
  /\ UNCHANGED <<tree, input, change, locals, treeBefore, lastCall>>

\* a faulty Validate: an empty changes array is rejected too
Validate_EmptyRejected ==
  /\ pc = "validate"
  /\ IF envelope # "array" \/ nChanges = 0
       THEN Throw("InvalidFormat")
       ELSE pc' = "loop" /\ UNCHANGED <<i, prev, error>>
  /\ UNCHANGED <<tree, input, change, locals, treeBefore, lastCall>>

\* if (!changesJson || !Array.isArray(changesJson.changes)) throw
Validate ==
  /\ pc = "validate"
  /\ IF envelope # "array"
       THEN Throw("InvalidFormat")
       ELSE pc' = "loop" /\ UNCHANGED <<i, prev, error>>
  /\ UNCHANGED <<tree, input, change, locals, treeBefore, lastCall>>

\* the for-of loop has no record left
Finish ==
  /\ pc = "loop"
  /\ i > nChanges
  /\ pc' = "done"
  /\ UNCHANGED <<tree, input, i, change, error, locals, treeBefore, prev, lastCall>>

\* pc at the first await of each handler
FirstAwait(type) ==
  CASE type = "create" -> "cf_open"
    [] type = "delete" -> "df_remove"
    [] type = "complete_update" -> "cu_open"
    [] type = "partial_update" -> "pu_open"
    [] type = "rename_move" -> "rm_open_old"

KnownTypes == {"create", "delete", "complete_update", "partial_update", "rename_move"}

\* the path the handler resolves first
FirstPath(c) == IF c.type = "rename_move" THEN c.old_path ELSE c.path

\* a faulty partialUpdate: edits is not checked before the path is resolved
Dispatch_EditsUnchecked ==
  /\ pc = "loop"
  /\ i <= nChanges
  /\ \E c \in RecordsAt :
       /\ change' = c
       /\ treeBefore' = tree
       /\ currentDir' = <<>>
       /\ parts' = FirstPath(c)
       /\ editNo' = 0
       /\ outcomes' = {}
       /\ taken' = <<>>
       /\ IF c.type \notin KnownTypes
            THEN pc' = "loop" /\ i' = i + 1 /\ prev' = c /\ error' = error
          ELSE pc' = FirstAwait(c.type) /\ UNCHANGED <<i, prev, error>>
  /\ UNCHANGED <<tree, input, oldDir, oldFile, fileLines, edit, linesBefore, lastCall>>

\* a faulty switch: a type with no case raises
Dispatch_UnknownThrows ==
  /\ pc = "loop"
  /\ i <= nChanges
  /\ \E c \in RecordsAt :
       /\ change' = c
       /\ treeBefore' = tree
       /\ currentDir' = <<>>
       /\ parts' = FirstPath(c)
       /\ editNo' = 0
       /\ outcomes' = {}
       /\ taken' = <<>>
       /\ IF c.type \notin KnownTypes
            THEN Throw("UnknownType")
          ELSE IF c.type = "partial_update" /\ ~c.edits.isArray
            THEN Throw("InvalidEdits")
          ELSE pc' = FirstAwait(c.type) /\ UNCHANGED <<i, prev, error>>
  /\ UNCHANGED <<tree, input, oldDir, oldFile, fileLines, edit, linesBefore, lastCall>>

\* switch (change.type), up to the first await of the handler
Dispatch ==
  /\ pc = "loop"
  /\ i <= nChanges
  /\ \E c \in RecordsAt :
       /\ change' = c
       /\ treeBefore' = tree
       /\ currentDir' = <<>>
       /\ parts' = FirstPath(c)
       /\ editNo' = 0
       /\ outcomes' = {}
       /\ taken' = <<>>
       /\ IF c.type \notin KnownTypes
            THEN pc' = "loop" /\ i' = i + 1 /\ prev' = c /\ error' = error
          ELSE IF c.type = "partial_update" /\ ~c.edits.isArray
            THEN Throw("InvalidEdits")
          ELSE pc' = FirstAwait(c.type) /\ UNCHANGED <<i, prev, error>>
  /\ UNCHANGED <<tree, input, oldDir, oldFile, fileLines, edit, linesBefore, lastCall>>

(***************************************************************************)
(* getParentDirectoryAndFileName: one getDirectoryHandle per directory     *)
(* part; the handler's next call runs once only the file name is left.     *)
(***************************************************************************)
ResolvingPcs ==
  {"cf_open", "df_remove", "cu_open", "pu_open", "rm_open_old", "rm_open_new"}

getParentDirectoryAndFileName ==
  /\ pc \in ResolvingPcs
  /\ Len(parts) > 1
  /\ LET r == getDirectoryHandleCreate(tree, currentDir, Head(parts))
     IN  IF r.ok
           THEN /\ tree' = r.tree
                /\ currentDir' = Append(currentDir, Head(parts))
                /\ parts' = Tail(parts)
                /\ UNCHANGED <<pc, i, prev, error>>
           ELSE /\ Throw(r.err)
                /\ UNCHANGED <<tree, currentDir, parts>>
  /\ lastCall' = i
  /\ UNCHANGED <<input, change, oldDir, oldFile, fileLines, editNo, edit,
                 linesBefore, taken, outcomes, treeBefore>>

fileName == parts[1]
target == Append(currentDir, fileName)

(***************************************************************************)
(* createFile                                                              *)
(***************************************************************************)
createFile_getFileHandle ==
  /\ pc = "cf_open"
  /\ Len(parts) = 1
  /\ LET r == getFileHandleCreate(tree, currentDir, fileName)
     IN  IF r.ok
           THEN tree' = r.tree /\ pc' = "cf_write" /\ UNCHANGED <<i, prev, error>>
           ELSE Throw(r.err) /\ tree' = tree
  /\ lastCall' = i
  /\ UNCHANGED <<input, change, locals, treeBefore>>

\* a faulty createFile_writeToFile: the write is not awaited and is lost
createFile_writeToFile_NotAwaited ==
  /\ pc = "cf_write"
  /\ tree' = tree
  /\ Return
  /\ lastCall' = i
  /\ UNCHANGED <<input, change, locals, treeBefore>>

createFile_writeToFile ==
  /\ pc = "cf_write"
  /\ tree' = writeToFile(tree, target, change.content)
  /\ Return
  /\ lastCall' = i
  /\ UNCHANGED <<input, change, locals, treeBefore>>

(***************************************************************************)
(* deleteFile                                                              *)
(***************************************************************************)
\* a faulty deleteFile_removeEntry: a missing entry is ignored
deleteFile_removeEntry_IgnoreMissing ==
  /\ pc = "df_remove"
  /\ Len(parts) = 1
  /\ LET r == removeEntry(tree, currentDir, fileName)
     IN  IF r.ok \/ r.err = "NotFoundError"
           THEN tree' = r.tree /\ Return
           ELSE Throw(r.err) /\ tree' = tree
  /\ lastCall' = i
  /\ UNCHANGED <<input, change, locals, treeBefore>>

\* a faulty deleteFile_removeEntry: the entry is removed from the root
\* directory instead of the parent directory
deleteFile_removeEntry_FromRoot ==
  /\ pc = "df_remove"
  /\ Len(parts) = 1
  /\ LET r == removeEntry(tree, <<>>, fileName)
     IN  IF r.ok
           THEN tree' = r.tree /\ Return
           ELSE Throw(r.err) /\ tree' = tree
  /\ lastCall' = i
  /\ UNCHANGED <<input, change, locals, treeBefore>>

deleteFile_removeEntry ==
  /\ pc = "df_remove"
  /\ Len(parts) = 1
  /\ LET r == removeEntry(tree, currentDir, fileName)
     IN  IF r.ok
           THEN tree' = r.tree /\ Return
           ELSE Throw(r.err) /\ tree' = tree
  /\ lastCall' = i
  /\ UNCHANGED <<input, change, locals, treeBefore>>

(***************************************************************************)
(* completeUpdate                                                          *)
(***************************************************************************)
\* a faulty completeUpdate_getFileHandle: { create: true } is left out
completeUpdate_getFileHandle_NoCreate ==
  /\ pc = "cu_open"
  /\ Len(parts) = 1
  /\ LET r == getFileHandle(tree, currentDir, fileName)
     IN  IF r.ok
           THEN tree' = r.tree /\ pc' = "cu_write" /\ UNCHANGED <<i, prev, error>>
           ELSE Throw(r.err) /\ tree' = tree
  /\ lastCall' = i
  /\ UNCHANGED <<input, change, locals, treeBefore>>

completeUpdate_getFileHandle ==
  /\ pc = "cu_open"
  /\ Len(parts) = 1
  /\ LET r == getFileHandleCreate(tree, currentDir, fileName)
     IN  IF r.ok
           THEN tree' = r.tree /\ pc' = "cu_write" /\ UNCHANGED <<i, prev, error>>
           ELSE Throw(r.err) /\ tree' = tree
  /\ lastCall' = i
  /\ UNCHANGED <<input, change, locals, treeBefore>>

completeUpdate_writeToFile ==
  /\ pc = "cu_write"
  /\ tree' = writeToFile(tree, target, change.new_content)
  /\ Return
  /\ lastCall' = i
  /\ UNCHANGED <<input, change, locals, treeBefore>>

(***************************************************************************)
(* partialUpdate                                                           *)
(***************************************************************************)
\* try { fileHandle = await parentDir.getFileHandle(fileName) } catch { return }
partialUpdate_getFileHandle ==
  /\ pc = "pu_open"
  /\ Len(parts) = 1
  /\ LET r == getFileHandle(tree, currentDir, fileName)
     IN  IF r.ok
           THEN pc' = "pu_read" /\ UNCHANGED <<i, prev, error>>
           ELSE Return
  /\ lastCall' = i
  /\ UNCHANGED <<tree, input, change, locals, treeBefore>>

\* pc of the edit loop once n edits are taken
AfterEdits(n) == IF n < change.edits.length THEN "pu_edits" ELSE "pu_write"

\* getFile, text, split('\n')
partialUpdate_read ==
  /\ pc = "pu_read"
  /\ fileLines' = readLines(tree, target)
  /\ pc' = AfterEdits(0)
  /\ lastCall' = i
  /\ UNCHANGED <<tree, input, i, change, error, currentDir, parts, oldDir, oldFile,
                 editNo, edit, linesBefore, taken, outcomes, treeBefore, prev>>

\* a faulty edit loop: every edit is applied to the lines as read from the file
editLoopTurn_OnOriginal(S) ==
  /\ pc = "pu_edits"
  /\ \E e \in S :
       /\ edit' = e
       /\ linesBefore' = fileLines
       /\ taken' = Append(taken, e)
       /\ outcomes' = outcomes \cup {EditOutcome(fileLines, e)}
       /\ fileLines' = applyEdit(readLines(tree, target), e)
  /\ editNo' = editNo + 1
  /\ pc' = AfterEdits(editNo + 1)
  /\ UNCHANGED <<tree, input, i, change, error, currentDir, parts, oldDir, oldFile,
                 treeBefore, prev, lastCall>>

\* a faulty edit loop: the file is written after every edit
editLoopTurn_WriteThrough(S) ==
  /\ pc = "pu_edits"
  /\ \E e \in S :
       /\ edit' = e
       /\ linesBefore' = fileLines
       /\ taken' = Append(taken, e)
       /\ outcomes' = outcomes \cup {EditOutcome(fileLines, e)}
       /\ IF EditOutcome(fileLines, e) = "raises"
            THEN fileLines' = fileLines /\ Throw("TypeError") /\ tree' = tree
            ELSE /\ fileLines' = applyEdit(fileLines, e)
                 /\ tree' = writeToFile(tree, target, applyEdit(fileLines, e))
                 /\ pc' = AfterEdits(editNo + 1)
                 /\ UNCHANGED <<i, error, prev>>
  /\ editNo' = editNo + 1
  /\ UNCHANGED <<input, change, currentDir, parts, oldDir, oldFile,
                 treeBefore, lastCall>>

\* one turn of for (const edit of edits), the edit drawn from S; a context
\* line that is no string makes the comparison raise
editLoopTurn(S) ==
  /\ pc = "pu_edits"
  /\ \E e \in S :
       /\ edit' = e
       /\ linesBefore' = fileLines
       /\ taken' = Append(taken, e)
       /\ outcomes' = outcomes \cup {EditOutcome(fileLines, e)}
       /\ IF EditOutcome(fileLines, e) = "raises"
            THEN fileLines' = fileLines /\ Throw("TypeError")
            ELSE /\ fileLines' = applyEdit(fileLines, e)
                 /\ pc' = AfterEdits(editNo + 1)
                 /\ UNCHANGED <<i, error, prev>>
  /\ editNo' = editNo + 1
  /\ UNCHANGED <<tree, input, change, currentDir, parts, oldDir, oldFile,
                 treeBefore, lastCall>>

partialUpdate_edit == editLoopTurn(EditsAt)

partialUpdate_writeToFile ==
  /\ pc = "pu_write"
  /\ tree' = writeToFile(tree, target, fileLines)
  /\ Return
  /\ lastCall' = i
  /\ UNCHANGED <<input, change, locals, treeBefore>>

(***************************************************************************)
(* renameMoveFile                                                          *)
(***************************************************************************)
renameMoveFile_getOldHandle ==
  /\ pc = "rm_open_old"
  /\ Len(parts) = 1
  /\ LET r == getFileHandle(tree, currentDir, fileName)
     IN  IF r.ok
           THEN pc' = "rm_read" /\ UNCHANGED <<i, prev, error>>
           ELSE Throw(r.err)
  /\ lastCall' = i
  /\ UNCHANGED <<tree, input, change, locals, treeBefore>>

\* a faulty renameMoveFile: the old entry is removed as soon as it is read
renameMoveFile_read_RemovesOld ==
  /\ pc = "rm_read"
  /\ fileLines' = readLines(tree, target)
  /\ tree' = Drop(tree, target)
  /\ oldDir' = currentDir
  /\ oldFile' = fileName
  /\ currentDir' = <<>>
  /\ parts' = change.new_path
  /\ pc' = "rm_open_new"
  /\ lastCall' = i
  /\ UNCHANGED <<input, i, change, error, editNo, edit, linesBefore,
                 taken, outcomes, treeBefore, prev>>

\* getFile, text; then the walk to newPath starts
renameMoveFile_read ==
  /\ pc = "rm_read"
  /\ fileLines' = readLines(tree, target)
  /\ oldDir' = currentDir
  /\ oldFile' = fileName
  /\ currentDir' = <<>>
  /\ parts' = change.new_path
  /\ pc' = "rm_open_new"
  /\ lastCall' = i
  /\ UNCHANGED <<tree, input, i, change, error, editNo, edit, linesBefore,
                 taken, outcomes, treeBefore, prev>>

renameMoveFile_getNewHandle ==
  /\ pc = "rm_open_new"
  /\ Len(parts) = 1
  /\ LET r == getFileHandleCreate(tree, currentDir, fileName)
     IN  IF r.ok
           THEN tree' = r.tree /\ pc' = "rm_write" /\ UNCHANGED <<i, prev, error>>
           ELSE Throw(r.err) /\ tree' = tree
  /\ lastCall' = i
  /\ UNCHANGED <<input, change, locals, treeBefore>>

renameMoveFile_writeToFile ==
  /\ pc = "rm_write"
  /\ tree' = writeToFile(tree, target, fileLines)
  /\ pc' = "rm_remove"
  /\ lastCall' = i
  /\ UNCHANGED <<input, i, change, error, locals, treeBefore, prev>>

renameMoveFile_removeEntry ==
  /\ pc = "rm_remove"
  /\ LET r == removeEntry(tree, oldDir, oldFile)
     IN  IF r.ok
           THEN tree' = r.tree /\ Return
           ELSE Throw(r.err) /\ tree' = tree
  /\ lastCall' = i
  /\ UNCHANGED <<input, change, locals, treeBefore>>

(***************************************************************************)
(* Any storage call may fail in the backend (permission, disk): the await  *)
(* throws and the tree is as it was.  Only the getFileHandle of            *)
(* partialUpdate sits in a try block.                                      *)
(***************************************************************************)
StorageCallPcs ==
  ResolvingPcs \cup {"cf_write", "cu_write", "pu_read", "pu_write", "rm_read",
                     "rm_write", "rm_remove"}

StorageError ==
  /\ pc \in StorageCallPcs
  /\ IF pc = "pu_open" /\ Len(parts) = 1
       THEN Return
       ELSE Throw("StorageError")
  /\ lastCall' = i
  /\ UNCHANGED <<tree, input, change, locals, treeBefore>>

Next ==
  \/ Validate
  \/ Dispatch
  \/ Finish
  \/ getParentDirectoryAndFileName
  \/ createFile_getFileHandle
  \/ createFile_writeToFile
  \/ deleteFile_removeEntry
  \/ completeUpdate_getFileHandle
  \/ completeUpdate_writeToFile
  \/ partialUpdate_getFileHandle
  \/ partialUpdate_read
  \/ partialUpdate_edit
  \/ partialUpdate_writeToFile
  \/ renameMoveFile_getOldHandle
  \/ renameMoveFile_read
  \/ renameMoveFile_getNewHandle
  \/ renameMoveFile_writeToFile
  \/ renameMoveFile_removeEntry
  \/ StorageError

Spec == Init /\ [][Next]_vars

(***************************************************************************)
(* One turn of the edit loop of partialUpdate on its own, over a wider     *)
(* range of file lines and edits: it starts where a partialUpdate with one *)
(* edit has read the file.                                                 *)
(***************************************************************************)
LE == <<"E">>

\* lines that differ from LM, and from one another, in letter case, in inner
\* white space or in the white space around them
LLowerM == <<"m">>
LMM == <<"M", "M">>
LMSpaceM == <<"M", " ", "M">>
LTabM == <<"\t", "M", "\r">>

MatcherFiles ==
  UNION {[1..n -> {LM, LPadM, LX}] : n \in 1..MaxLines}
  \cup {<<LS, LM, LM, LE>>}
  \cup {<<LLowerM>>, <<LMM>>, <<LMSpaceM>>, <<LTabM>>}

MatcherContexts ==
  {<<>>, <<LM>>, <<LM, LM>>, <<LX>>, <<LPadM, LX>>}
  \cup {<<LPadM, LM>>, <<LLowerM>>, <<LMM>>, <<LMSpaceM>>}
OccurrenceIndexes ==
  {Undefined, Num(-1), Num(0), Num(1), Num(2), Num(3), HalfNum(3)}
Replacements == {<<>>, <<LX>>, <<LX, LM>>}

MatcherEdits ==
  {Edit(Arr(mc), k, Arr(r)) :
     mc \in MatcherContexts, k \in OccurrenceIndexes, r \in Replacements}
  \cup {Edit(NotAnArray, Num(1), Arr(<<LX>>)), Edit(Arr(<<LM>>), Num(1), NotAnArray)}

InitEdit ==
  /\ fileLines \in MatcherFiles
  /\ tree = Put(<<>>, <<"f">>, File(Join(fileLines)))
  /\ envelope = "array"
  /\ nChanges = 1
  /\ version = Num(1)
  /\ batch = FreeBatch
  /\ first = NoFirst
  /\ i = 1
  /\ change = Record("partial_update", <<"f">>, <<>>, <<>>, <<>>, <<>>,
                     [isArray |-> TRUE, length |-> 1])
  /\ pc = "pu_edits"
  /\ error = ""
  /\ currentDir = <<>>
  /\ parts = <<"f">>
  /\ oldDir = <<>>
  /\ oldFile = ""
  /\ editNo = 0
  /\ edit = NoEdit
  /\ linesBefore = <<>>
  /\ taken = <<>>
  /\ outcomes = {}
  /\ treeBefore = tree
  /\ prev = NoRecord
  /\ lastCall = 1

NextEdit == editLoopTurn(MatcherEdits)

SpecEdit == InitEdit /\ [][NextEdit]_vars

(***************************************************************************)
(* The same changes applied twice to the same tree, the second time with   *)
(* another version: a batch of at most one record, fixed beforehand with   *)
(* its edits, is applied, the tree is put back and the batch is applied    *)
(* again.                                                                  *)
(***************************************************************************)
FixedBatches ==
  {[fixed |-> TRUE, record |-> r, edits |-> es] :
     r \in Records, es \in UNION {[1..n -> Edits] : n \in 0..MaxEdits}}

InitVersion ==
  /\ tree \in InitTrees
  /\ envelope \in Envelopes
  /\ version \in Versions
  /\ envelope = "null" => version = Undefined
  /\ nChanges \in 0..1
  /\ envelope # "array" => nChanges = 1
  /\ batch \in FixedBatches
  /\ Len(batch.edits) = batch.record.edits.length
  /\ (envelope # "array" \/ nChanges = 0)
       => batch.record = Record("unknown_type", <<"f">>, <<>>, <<>>, <<>>, <<>>, NoEdits)
  /\ first = NoFirst
  /\ i = 1
  /\ change = NoRecord
  /\ pc = "validate"
  /\ error = ""
  /\ currentDir = <<>>
  /\ parts = <<>>
  /\ oldDir = <<>>
  /\ oldFile = ""
  /\ fileLines = <<>>
  /\ editNo = 0
  /\ edit = NoEdit
  /\ linesBefore = <<>>
  /\ taken = <<>>
  /\ outcomes = {}
  /\ treeBefore = tree
  /\ prev = NoRecord
  /\ lastCall = 0

\* no call of the storage backend has failed for a reason of its own in the
\* application that has ended: none was raised, and none was caught by
\* partialUpdate where the file was there to open
BackendHeld ==
  /\ error # "StorageError"
  /\ ~(/\ pc = "done"
       /\ change.type = "partial_update"
       /\ change.edits.isArray
       /\ IsFile(treeBefore, change.path)
       /\ Len(taken) < change.edits.length)

\* applyJsonChanges is called again with the same changes and another
\* version, on the tree the first call started from (treeBefore: the batch
\* has at most one record)
Restart ==
  /\ pc \in {"done", "rejected"}
  /\ ~first.ran
  /\ envelope # "null"
  /\ first' = [ran |-> TRUE, version |-> version, pc |-> pc, error |-> error,
               tree |-> tree, held |-> BackendHeld]
  /\ version' \in Versions \ {version}
  /\ tree' = treeBefore
  /\ treeBefore' = treeBefore
  /\ i' = 1
  /\ change' = NoRecord
  /\ pc' = "validate"
  /\ error' = ""
  /\ currentDir' = <<>>
  /\ parts' = <<>>
  /\ oldDir' = <<>>
  /\ oldFile' = ""
  /\ fileLines' = <<>>
  /\ editNo' = 0
  /\ edit' = NoEdit
  /\ linesBefore' = <<>>
  /\ taken' = <<>>
  /\ outcomes' = {}
  /\ prev' = NoRecord
  /\ lastCall' = 0
  /\ UNCHANGED <<envelope, nChanges, batch>>

NextVersion == Next \/ Restart

SpecVersion == InitVersion /\ [][NextVersion]_vars

(***************************************************************************)
(* One record on a path three parts deep: the directories above the file   *)
(* are there in part ("d" without "d/e") or not at all.                    *)
(***************************************************************************)
DeepPath == <<"d", "e", "f">>

DeepRecords ==
  Records
  \cup {Record("create", DeepPath, <<>>, <<>>, c, <<>>, NoEdits) : c \in Contents}
  \cup {Record("delete", DeepPath, <<>>, <<>>, <<>>, <<>>, NoEdits)}
  \cup {Record("complete_update", DeepPath, <<>>, <<>>, <<>>, c, NoEdits) :
          c \in Contents}
  \cup {Record("partial_update", DeepPath, <<>>, <<>>, <<>>, <<>>,
               [isArray |-> TRUE, length |-> n]) : n \in 0..MaxEdits}
  \cup {Record("rename_move", <<>>, p, DeepPath, <<>>, <<>>, NoEdits) : p \in Paths}
  \cup {Record("rename_move", <<>>, DeepPath, p, <<>>, <<>>, NoEdits) : p \in Paths}

DeepBatches ==
  {[fixed |-> TRUE, record |-> r, edits |-> es] :
     r \in DeepRecords, es \in UNION {[1..n -> Edits] : n \in 0..MaxEdits}}

InitDeep ==
  /\ tree \in InitTrees
  /\ envelope = "array"
  /\ version = Num(1)
  /\ nChanges = 1
  /\ batch \in DeepBatches
  /\ Len(batch.edits) = batch.record.edits.length
  /\ first = NoFirst
  /\ i = 1
  /\ change = NoRecord
  /\ pc = "validate"
  /\ error = ""
  /\ currentDir = <<>>
  /\ parts = <<>>
  /\ oldDir = <<>>
  /\ oldFile = ""
  /\ fileLines = <<>>
  /\ editNo = 0
  /\ edit = NoEdit
  /\ linesBefore = <<>>
  /\ taken = <<>>
  /\ outcomes = {}
  /\ treeBefore = tree
  /\ prev = NoRecord
  /\ lastCall = 0

SpecDeep == InitDeep /\ [][Next]_vars

(***************************************************************************)
(* A batch that holds the same record up to MaxBatch times, the record     *)
(* with at most one edit, under the condition that every storage call      *)
(* returns or fails: an await that can resume does resume, and the code    *)
(* between two awaits runs.                                                *)
(***************************************************************************)
LiveBatches == {b \in FixedBatches : Len(b.edits) <= 1}

InitLive ==
  /\ tree \in InitTrees
  /\ envelope \in Envelopes
  /\ version = (IF envelope = "null" THEN Undefined ELSE Num(1))
  /\ nChanges \in 0..MaxBatch
  /\ envelope # "array" => nChanges = 1
  /\ batch \in LiveBatches
  /\ Len(batch.edits) = batch.record.edits.length
  /\ (envelope # "array" \/ nChanges = 0)
       => batch.record = Record("unknown_type", <<"f">>, <<>>, <<>>, <<>>, <<>>, NoEdits)
  /\ first = NoFirst
  /\ i = 1
  /\ change = NoRecord
  /\ pc = "validate"
  /\ error = ""
  /\ currentDir = <<>>
  /\ parts = <<>>
  /\ oldDir = <<>>
  /\ oldFile = ""
  /\ fileLines = <<>>
  /\ editNo = 0
  /\ edit = NoEdit
  /\ linesBefore = <<>>
  /\ taken = <<>>
  /\ outcomes = {}
  /\ treeBefore = tree
  /\ prev = NoRecord
  /\ lastCall = 0

SpecLive == InitLive /\ [][Next]_vars /\ WF_vars(Next)

(***************************************************************************)
(* Properties                                                              *)
(***************************************************************************)
\* the record of the given type has just returned
JustCompleted(type) == pc \in {"loop", "done"} /\ i > 1 /\ change.type = type

\* the directories above a path
Ancestors(path) == {SubSeq(path, 1, k) : k \in 1..(Len(path) - 1)}

\* the nodes a record names, with the directories above them
Touched(c) ==
  UNION {Ancestors(p) \cup {p} : p \in {c.path, c.old_path, c.new_path}}

\* C1: records are applied one at a time in array order: the loop position
\* only moves forward by one, and only when the handler has returned; every
\* storage call is made by the record the loop is at; a record sees what the
\* record before it left: a partial_update of p after a create of p reads the
\* content just created, and a delete of p after a create of p finds p.
C1_SequentialInOrder ==
  [][ /\ i' \in {i, i + 1}
      /\ (i' = i + 1 => pc' = "loop")
      /\ (change' # change => pc = "loop" /\ i <= nChanges /\ treeBefore' = tree)
      /\ lastCall' \in {lastCall, i}
      /\ lastCall' >= lastCall
      /\ (/\ pc = "pu_read"
          /\ pc' # "rejected"
          /\ prev.type = "create"
          /\ prev.path = change.path
          => fileLines' = Split(Join(prev.content)))
      /\ (/\ pc' = "rejected"
          /\ change.type = "delete"
          /\ prev.type = "create"
          /\ prev.path = change.path
          => error' = "StorageError")
    ]_vars

C1_Witness ==
  /\ pc = "pu_write"
  /\ i = 2
  /\ prev.type = "create"
  /\ prev.path = change.path
  /\ prev.content = <<LX, LM>>
  /\ fileLines = <<LX, LX>>

\* C2: a null batch, or one whose changes is absent or not a list, is
\* rejected before any storage call: no record is taken and the tree is the
\* one the call started with.
C2_InvalidEnvelopeRejected ==
  (envelope # "array" /\ pc # "validate")
    => /\ pc = "rejected"
       /\ error = "InvalidFormat"
       /\ change = NoRecord
       /\ lastCall = 0
       /\ tree = treeBefore

C2_Witness == envelope = "object" /\ nChanges = 1 /\ pc = "rejected"

\* what records before the current one left, outside the nodes it names
KeepsEarlier ==
  \A n \in DOMAIN treeBefore :
    n \notin Touched(change) => (n \in DOMAIN tree /\ tree[n] = treeBefore[n])

\* C3: a fatal error (delete of an absent path, edits that are no list,
\* rename_move of an absent old_path, a storage failure) rejects the call;
\* the step that raises it changes no file, nothing runs after it, and what
\* the earlier records did is still there.
C3_FatalStopsNoRollback ==
  [][ /\ (error' # "" <=> pc' = "rejected")
      /\ (pc' = "rejected" => tree' = tree /\ i' = i)
      /\ (pc = "rejected" => pc' = "rejected")
      /\ (pc' = "rejected" /\ change' # NoRecord => KeepsEarlier')
      /\ (pc = "df_remove" /\ Len(parts) = 1 /\ ~Exists(tree, target)
            => pc' = "rejected")
      /\ (pc = "rm_open_old" /\ Len(parts) = 1 /\ ~Exists(tree, target)
            => pc' = "rejected")
      /\ (pc = "loop" /\ change'.type = "partial_update" /\ ~change'.edits.isArray
            => pc' = "rejected" /\ error' = "InvalidEdits")
    ]_vars

C3_Witness ==
  /\ pc = "rejected"
  /\ i = 2
  /\ error = "NotFoundError"
  /\ change.type = "delete"
  /\ prev.type = "create"
  /\ prev.content = <<LM>>
  /\ IsFile(tree, prev.path)
  /\ tree[prev.path].text = LM

\* the lines hold no line break
NoLineBreak(lines) ==
  \A k \in 1..Len(lines) : \A c \in 1..Len(lines[k]) : lines[k][c] # NL

\* C4 as stated: after a create completes, the file read back as lines is
\* exactly content, for any content, the empty sequence included.
C4_AnyContentReadsBack ==
  JustCompleted("create")
    => /\ IsFile(tree, change.path)
       /\ readLines(tree, change.path) = change.content

\* C4 amended: after a create completes, the file read back as lines is
\* exactly content whenever content is not empty and no line of it holds a
\* line break, whatever the path held before; a file already there is no
\* error.
C4_CreateReadsBack ==
  /\ (JustCompleted("create") /\ change.content # <<>> /\ NoLineBreak(change.content))
       => /\ IsFile(tree, change.path)
          /\ readLines(tree, change.path) = change.content
  /\ (pc = "rejected" /\ change.type = "create" /\ IsFile(treeBefore, change.path))
       => error = "StorageError"

C4_Witness ==
  /\ JustCompleted("create")
  /\ IsFile(treeBefore, change.path)
  /\ treeBefore[change.path].text = TextA
  /\ change.content = <<LX, LM>>
  /\ readLines(tree, change.path) = <<LX, LM>>

\* the tree in which path is a file holding content and every directory
\* above it exists, all else as in t
Ensured(t, path, content) ==
  [n \in DOMAIN t \cup Ancestors(path) \cup {path} |->
     IF n = path THEN File(Join(content))
     ELSE IF n \in Ancestors(path) THEN Directory
     ELSE t[n]]

\* path cannot be opened as a file in t
Blocked(t, path) ==
  IsDirectory(t, path) \/ \E a \in Ancestors(path) : IsFile(t, a)

\* C5: complete_update with new_content c has the effect create with content
\* c has on the same tree and path: both leave the tree with the path a file
\* holding c (created when absent, overwritten when present), and both fail
\* in the same case only.
C5_CompleteUpdateLikeCreate ==
  /\ JustCompleted("create")
       => /\ tree = Ensured(treeBefore, change.path, change.content)
          /\ ~Blocked(treeBefore, change.path)
  /\ JustCompleted("complete_update")
       => /\ tree = Ensured(treeBefore, change.path, change.new_content)
          /\ ~Blocked(treeBefore, change.path)
  /\ (/\ pc = "rejected"
      /\ change.type \in {"create", "complete_update"}
      /\ error # "StorageError")
       => error = "TypeMismatchError" /\ Blocked(treeBefore, change.path)

C5_Witness ==
  /\ JustCompleted("complete_update")
  /\ change.path = <<"d", "f">>
  /\ ~Exists(treeBefore, <<"d">>)
  /\ change.new_content = <<LX, LM>>
  /\ tree[<<"d", "f">>] = File(Join(<<LX, LM>>))

\* C6: a delete whose path names nothing is never a silent no-op: the call
\* rejects with an error, and once it has rejected no record runs.
C6_DeleteAbsentRaises ==
  [][ /\ (pc = "df_remove" /\ Len(parts) = 1 /\ ~Exists(tree, target))
           => pc' = "rejected" /\ error' \in {"NotFoundError", "StorageError"}
      /\ (change'.type = "delete" /\ ~Exists(treeBefore', change'.path))
           => /\ pc' \in {"df_remove", "rejected"}
              /\ pc' = "rejected" => error' # ""
      /\ pc = "rejected" => pc' = "rejected" /\ i' = i /\ tree' = tree
    ]_vars

C6_Witness ==
  /\ pc = "rejected"
  /\ change.type = "delete"
  /\ ~Exists(treeBefore, change.path)
  /\ error = "NotFoundError"
  /\ i = 1
  /\ nChanges = 2

\* C7: a delete of an existing file removes that file and nothing else:
\* the path is gone, every other node is there with what it held.
C7_DeleteRemovesOnlyTarget ==
  (JustCompleted("delete") /\ IsFile(treeBefore, change.path))
    => /\ ~Exists(tree, change.path)
       /\ DOMAIN tree = DOMAIN treeBefore \ {change.path}
       /\ \A n \in DOMAIN tree : tree[n] = treeBefore[n]

C7_Witness ==
  /\ JustCompleted("delete")
  /\ change.path = <<"d", "f">>
  /\ IsFile(treeBefore, change.path)
  /\ IsFile(tree, <<"f">>)
  /\ IsDirectory(tree, <<"d">>)

\* the start indices (0-based) at which every line of mc equals the line of
\* lines at its place once both are trimmed
MatchStarts(lines, mc) ==
  {s \in 0..(Len(lines) - Len(mc)) :
     \A j \in 1..Len(mc) : Trim(lines[s + j]) = Trim(mc[j])}

\* the k-th smallest element of S
KthSmallest(S, k) == CHOOSE s \in S : Cardinality({x \in S : x < s}) = k - 1

\* lines with the block of length m at start s replaced by r
Spliced(lines, s, m, r) ==
  SubSeq(lines, 1, s) \o r \o SubSeq(lines, s + m + 1, Len(lines))

\* the edit taken last was well formed
LastEditWellFormed ==
  editNo >= 1 /\ IsArray(edit.match_context) /\ IsArray(edit.replacement)

\* C8: an edit with occurrence_index k >= 1 whose match_context occurs at
\* least k times replaces exactly the k-th match in ascending order of start
\* index, counted from 1, and leaves all other lines in place.
C8_KthOccurrenceReplaced ==
  /\ (/\ LastEditWellFormed
      /\ edit.occurrence_index.type = "number"
      /\ edit.occurrence_index.den = 1
      /\ edit.occurrence_index.num >= 1
      /\ Cardinality(MatchStarts(linesBefore, edit.match_context.items))
           >= edit.occurrence_index.num)
       => fileLines =
            Spliced(linesBefore,
                    KthSmallest(MatchStarts(linesBefore, edit.match_context.items),
                                edit.occurrence_index.num),
                    Len(edit.match_context.items), edit.replacement.items)
  /\ (/\ editNo >= 1
      /\ linesBefore = <<LS, LM, LM, LE>>
      /\ edit = Edit(Arr(<<LM>>), Num(2), Arr(<<LX>>)))
       => fileLines = <<LS, LM, LX, LE>>

C8_Witness ==
  /\ editNo = 1
  /\ linesBefore = <<LS, LM, LM, LE>>
  /\ edit = Edit(Arr(<<LM>>), Num(2), Arr(<<LX>>))
  /\ fileLines = <<LS, LM, LX, LE>>

\* C9: an edit without occurrence_index does what the same edit with
\* occurrence_index 1 does: it replaces the first match in the lines as they
\* stand, and changes nothing when there is no match.
C9_DefaultOccurrenceIsFirst ==
  (editNo >= 1 /\ edit.occurrence_index.type # "number")
    => /\ fileLines = applyEdit(linesBefore, [edit EXCEPT !.occurrence_index = Num(1)])
       /\ LastEditWellFormed
            => LET starts == MatchStarts(linesBefore, edit.match_context.items)
               IN  IF starts = {}
                     THEN fileLines = linesBefore
                     ELSE fileLines =
                            Spliced(linesBefore, KthSmallest(starts, 1),
                                    Len(edit.match_context.items),
                                    edit.replacement.items)

C9_Witness ==
  /\ editNo = 1
  /\ edit = Edit(Arr(<<LM>>), Undefined, Arr(<<LX>>))
  /\ linesBefore = <<LX, LM, LPadM>>
  /\ fileLines = <<LX, LX, LPadM>>

\* C10: an edit whose match_context occurs fewer than occurrence_index times
\* is skipped without an error: the lines stay as they are and the edit loop
\* goes on, a later edit that matches still replaces; a partial_update made
\* of such edits only leaves the file exactly as it was and the loop moves to
\* the next record.
C10_MissingOccurrenceSkipped ==
  [][ /\ (editNo' = editNo + 1 /\ EditOutcome(fileLines, edit') = "missing")
           => /\ fileLines' = fileLines
              /\ error' = ""
              /\ pc' = AfterEdits(editNo')
      /\ (/\ editNo' = editNo + 1
          /\ "missing" \in outcomes
          /\ EditOutcome(fileLines, edit') = "replaced")
           => fileLines' # fileLines
      /\ (/\ pc = "pu_write"
          /\ pc' # "rejected"
          /\ outcomes = {"missing"})
           => /\ tree' = treeBefore
              /\ pc' = "loop"
              /\ i' = i + 1
              /\ error' = ""
    ]_vars

C10_Witness ==
  /\ JustCompleted("partial_update")
  /\ outcomes = {"missing"}
  /\ editNo = 2
  /\ i = 2
  /\ nChanges = 2
  /\ IsFile(tree, change.path)
  /\ tree[change.path].text = TextA
  /\ tree = treeBefore

\* what one edit makes of lines: the k-th match replaced (k = 1 when the edit
\* names no index), nothing when the edit is malformed or has no k-th match
SingleEdit(lines, e) ==
  IF ~IsArray(e.match_context) \/ ~IsArray(e.replacement) THEN lines
  ELSE LET k == IF e.occurrence_index.type = "number"
                  THEN e.occurrence_index.num ELSE 1
           starts == MatchStarts(lines, e.match_context.items)
       IN  IF Cardinality(starts) < k THEN lines
           ELSE Spliced(lines, KthSmallest(starts, k),
                        Len(e.match_context.items), e.replacement.items)

RECURSIVE FoldEdits(_, _)
FoldEdits(lines, es) ==
  IF es = <<>> THEN lines
  ELSE FoldEdits(SingleEdit(lines, Head(es)), Tail(es))

\* C11: the edits of one partial_update are applied in list order, each to
\* the lines the previous edit produced and not to the file as read: while
\* the edit loop runs the working lines are the left-to-right fold of the
\* single-edit replacement over the edits taken so far, starting from the
\* lines of the file, and once the record has taken all its edits the file
\* holds the fold over all of them.
C11_EditsFoldInOrder ==
  /\ pc \in {"pu_edits", "pu_write"}
       => /\ Len(taken) = editNo
          /\ fileLines = FoldEdits(Split(treeBefore[change.path].text), taken)
  /\ (/\ JustCompleted("partial_update")
      /\ IsFile(treeBefore, change.path)
      /\ Len(taken) = change.edits.length)
       => /\ IsFile(tree, change.path)
          /\ tree[change.path].text =
               Join(FoldEdits(Split(treeBefore[change.path].text), taken))

\* the second edit's match_context is found only in the first edit's
\* replacement, and both have taken effect
C11_Witness ==
  /\ JustCompleted("partial_update")
  /\ taken = <<Edit(Arr(<<LM>>), Undefined, Arr(<<LX>>)),
               Edit(Arr(<<LX>>), Undefined, Arr(<<LS>>))>>
  /\ treeBefore[change.path].text = TextA
  /\ MatchStarts(Split(TextA), <<LX>>) = {}
  /\ tree[change.path].text = Join(<<LS, LPadM>>)

\* C12: for every pair old_path, new_path such that old_path names an
\* existing file, after rename_move completes new_path holds exactly the
\* content old_path had and old_path no longer exists.
C12_RenameMovesContent ==
  (JustCompleted("rename_move") /\ IsFile(treeBefore, change.old_path))
    => /\ IsFile(tree, change.new_path)
       /\ tree[change.new_path].text = treeBefore[change.old_path].text
       /\ ~Exists(tree, change.old_path)

\* C13: a record whose type is none of the five known types never aborts the
\* batch: the step that takes it raises no error and leaves the storage
\* tree as it is, and the loop stands at the next record exactly as it would
\* had the record not been there.
C13_UnknownTypeSkipped ==
  [][ (pc = "loop" /\ i <= nChanges /\ change'.type \notin KnownTypes)
        => /\ tree' = tree
           /\ error' = ""
           /\ pc' = "loop"
           /\ i' = i + 1
    ]_vars

\* the record after one of unknown type is being applied
C13_Witness ==
  /\ pc = "cf_write"
  /\ prev.type = "unknown_type"
  /\ i = 2
  /\ error = ""
  /\ ~Exists(treeBefore, change.path)
  /\ IsFile(tree, change.path)

\* a line without the white space at its two ends: from its first character
\* that is no white space to its last
Core(line) ==
  LET solid == {k \in 1..Len(line) : line[k] \notin WhiteSpace}
  IN  IF solid = {} THEN <<>>
      ELSE SubSeq(line, CHOOSE k \in solid : \A n \in solid : k <= n,
                        CHOOSE k \in solid : \A n \in solid : k >= n)

\* C14: the comparison of a file line with a context line is symmetric and
\* ignores only the white space at the two ends of each: two lines match
\* exactly when they are equal character by character once that white space
\* is taken off, so a padded context line matches the unpadded file line and
\* the reverse, and lines that differ in inner white space or in letter case
\* never match.  An edit of one context line on a file of one line replaces
\* exactly when the two lines are equal in that sense.
C14_LineComparison ==
  (editNo >= 1 /\ IsArray(edit.match_context))
    => LET mc == edit.match_context.items
       IN  /\ \A s \in 1..Len(linesBefore), j \in 1..Len(mc) :
                /\ LinesMatch(linesBefore[s], mc[j]) = LinesMatch(mc[j], linesBefore[s])
                /\ LinesMatch(linesBefore[s], mc[j]) = (Core(linesBefore[s]) = Core(mc[j]))
           /\ (/\ Len(linesBefore) = 1
               /\ Len(mc) = 1
               /\ IsArray(edit.replacement)
               /\ edit.occurrence_index \in {Undefined, Num(1)})
                => (outcomes = {"replaced"}) = (Core(linesBefore[1]) = Core(mc[1]))

\* a padded context line has matched an unpadded file line, and an unpadded
\* context line a padded file line
C14_Witness ==
  /\ editNo = 1
  /\ linesBefore = <<LM, LPadM>>
  /\ edit = Edit(Arr(<<LPadM, LM>>), Undefined, Arr(<<LX>>))
  /\ fileLines = <<LX>>

\* C15: a partial_update whose edits is not a list raises a fatal error,
\* whether or not its target exists, before the record touches storage: the
\* step that takes the record ends the batch with the error, makes no
\* storage call, changes no file and creates no directory.
C15_InvalidEditsRejectedFirst ==
  [][ (/\ pc = "loop"
       /\ i <= nChanges
       /\ change'.type = "partial_update"
       /\ ~change'.edits.isArray)
        => /\ pc' = "rejected"
           /\ error' = "InvalidEdits"
           /\ tree' = tree
           /\ lastCall' = lastCall
    ]_vars

\* the target and its directory are missing, and are still missing after
\* the error
C15_Witness ==
  /\ pc = "rejected"
  /\ error = "InvalidEdits"
  /\ change.type = "partial_update"
  /\ change.path = <<"d", "f">>
  /\ ~Exists(tree, <<"d">>)
  /\ tree = treeBefore
  /\ lastCall < i

\* match_context or replacement of the edit is not a list
Malformed(e) == ~IsArray(e.match_context) \/ ~IsArray(e.replacement)

\* C16: an edit whose match_context or replacement is not a list is skipped
\* without an error: the working lines, which hold what the edits before it
\* made, stay as they are and the edit loop goes on; an edit after it is
\* applied as it would be without it, so that the file is written with the
\* fold over the well-formed edits alone; a record made of such edits only
\* leaves the file content as it was; and the loop moves to the next record.
C16_MalformedEditSkipped ==
  [][ /\ (editNo' = editNo + 1 /\ Malformed(edit'))
           => /\ fileLines' = fileLines
              /\ error' = ""
              /\ pc' = AfterEdits(editNo')
      /\ (editNo' = editNo + 1 /\ ~Malformed(edit'))
           => fileLines' = SingleEdit(fileLines, edit')
      /\ (/\ pc = "pu_write"
          /\ pc' # "rejected"
          /\ \E k \in 1..Len(taken) : Malformed(taken[k]))
           => /\ tree'[change.path].text =
                   Join(FoldEdits(Split(treeBefore[change.path].text),
                                  SelectSeq(taken, LAMBDA e : ~Malformed(e))))
              /\ (\A k \in 1..Len(taken) : Malformed(taken[k]))
                   => tree' = treeBefore
              /\ pc' = "loop"
              /\ i' = i + 1
              /\ error' = ""
    ]_vars

\* a malformed edit between two edits that have both replaced, and the next
\* record at hand
C16_Witness ==
  /\ JustCompleted("partial_update")
  /\ taken = <<Edit(Arr(<<LM>>), Undefined, Arr(<<LX>>)),
               Edit(Arr(<<LM>>), Undefined, NotAnArray)>>
  /\ treeBefore[change.path].text = TextA
  /\ tree[change.path].text = Join(<<LX, LPadM>>)
  /\ pc = "loop"
  /\ i <= nChanges
  /\ error = ""

\* C17: a partial_update whose target file does not exist is skipped without
\* an error and without mutating anything: from the moment the record is
\* taken the storage tree stays the tree the record found, the target is not
\* created, and the loop moves to the next record.  (A failure of the
\* storage backend itself is left aside.)
C17_MissingTargetSkipped ==
  (/\ change.type = "partial_update"
   /\ change.edits.isArray
   /\ ~IsFile(treeBefore, change.path)
   /\ error # "StorageError")
    => /\ tree = treeBefore
       /\ error = ""
       /\ pc \in {"pu_open", "loop", "done"}

\* C19: a batch whose changes is the empty list is valid and does nothing:
\* validation lets it pass, the loop ends at once, no error is raised and
\* no step changes the storage tree.
C19_EmptyBatchNoOp ==
  [][ (envelope = "array" /\ nChanges = 0)
        => /\ tree' = tree
           /\ error' = ""
           /\ pc = "validate" => pc' = "loop"
           /\ pc = "loop" => pc' = "done"
    ]_vars

C19_Witness ==
  /\ envelope = "array"
  /\ nChanges = 0
  /\ pc = "done"
  /\ error = ""
  /\ IsFile(tree, <<"f">>)
  /\ tree = treeBefore

\* C20: for file lines of length N and a context block of length M the
\* matcher returns, in ascending order and without duplicates, exactly the
\* start indices s with 0 <= s <= N - M at which every context line equals
\* the file line at its place once both are trimmed; windows that overlap are
\* all reported ([A, A, A] with [A, A] gives [0, 1]), the result is empty
\* when M > N, and the empty context gives every index 0..N.
C20_MatcherResult ==
  (editNo >= 1 /\ IsArray(edit.match_context))
    => LET mc == edit.match_context.items
           N == Len(linesBefore)
           M == Len(mc)
           r == findAllContextMatches(linesBefore, mc)
       IN  /\ \A k \in 1..(Len(r) - 1) : r[k] < r[k + 1]
           /\ {r[k] : k \in 1..Len(r)} =
                {s \in 0..(N - M) :
                   \A j \in 0..(M - 1) : Core(linesBefore[s + j + 1]) = Core(mc[j + 1])}
           /\ M > N => r = <<>>
           /\ M = 0 => r = [k \in 1..(N + 1) |-> k - 1]
           /\ (linesBefore = <<LM, LM, LM>> /\ mc = <<LM, LM>>) => r = <<0, 1>>

\* the second of two windows that overlap is found and replaced
C20_Witness ==
  /\ editNo = 1
  /\ linesBefore = <<LM, LM, LM>>
  /\ edit = Edit(Arr(<<LM, LM>>), Num(2), Arr(<<LX>>))
  /\ fileLines = <<LM, LX>>

\* C18: the version field is not used: two batches with the same changes
\* that differ only in whether version is there or in its value, applied to
\* the same storage tree, end alike, completed or rejected with the same
\* error, and leave the same tree behind (the storage backend failing in
\* neither application for a reason of its own).
C18_VersionUnused ==
  (first.ran /\ pc \in {"done", "rejected"} /\ first.held /\ BackendHeld)
    => /\ version # first.version
       /\ pc = first.pc
       /\ error = first.error
       /\ tree = first.tree

\* a create applied with version 2 and then without version has made the
\* same file both times
C18_Witness ==
  /\ first.ran
  /\ first.version = Num(2)
  /\ version = Undefined
  /\ pc = "done"
  /\ first.pc = "done"
  /\ change.type = "create"
  /\ ~Exists(treeBefore, change.path)
  /\ IsFile(tree, change.path)
  /\ tree = first.tree

\* C21: when the occurrence an edit asks for is found at start index s, the
\* new lines are the lines before s, then the replacement lines, then the
\* lines from s + M on, M the length of match_context: there are N - M + R
\* of them, every line outside the block keeps its content, white space
\* included, and its order, and the replacement lines stand as given.
C21_SpliceAtFoundIndex ==
  (/\ LastEditWellFormed
   /\ occurrenceIdx(edit).den = 1
   /\ occurrenceIdx(edit).num >= 1
   /\ Cardinality(MatchStarts(linesBefore, edit.match_context.items))
        >= occurrenceIdx(edit).num)
    => LET N == Len(linesBefore)
           M == Len(edit.match_context.items)
           R == Len(edit.replacement.items)
           s == KthSmallest(MatchStarts(linesBefore, edit.match_context.items),
                            occurrenceIdx(edit).num)
       IN  /\ Len(fileLines) = N - M + R
           /\ \A p \in 1..s : fileLines[p] = linesBefore[p]
           /\ \A p \in 1..R : fileLines[s + p] = edit.replacement.items[p]
           /\ \A p \in (s + M + 1)..N : fileLines[p - M + R] = linesBefore[p]

\* two lines out of three replaced by two, the third line keeps its padding
C21_Witness ==
  /\ editNo = 1
  /\ linesBefore = <<LM, LX, LPadM>>
  /\ edit = Edit(Arr(<<LPadM, LX>>), Undefined, Arr(<<LX, LM>>))
  /\ fileLines = <<LX, LM, LPadM>>

\* C22: for every edit and every numeric occurrence_index, 0, negative and
\* non-integer values included, the lines after the edit are either the
\* lines before it or those lines with exactly one block that matches
\* match_context replaced by the replacement; an edit whose match_context
\* does not occur in the lines never changes them.
C22_AtMostOneBlockReplaced ==
  (LastEditWellFormed /\ edit.occurrence_index.type = "number")
    => LET starts == MatchStarts(linesBefore, edit.match_context.items)
       IN  /\ \/ fileLines = linesBefore
              \/ \E s \in starts :
                   fileLines = Spliced(linesBefore, s, Len(edit.match_context.items),
                                       edit.replacement.items)
           /\ starts = {} => fileLines = linesBefore

\* C23: a partial_update writes its target file at most once, after all its
\* edits have been computed in memory: from the read of the file to the
\* write the storage tree is the tree the record found, the only step that
\* changes it is the write of the lines left by the last edit, with which
\* the record returns, and when the record raises, while an edit is
\* processed or at the write, the target keeps the content it had.
C23_WrittenOnceAtTheEnd ==
  [][ (pc \in {"pu_read", "pu_edits", "pu_write"})
        => /\ tree = treeBefore
           /\ (tree' # tree)
                => (/\ pc = "pu_write"
                    /\ Len(taken) = change.edits.length
                    /\ tree' = Put(tree, change.path, File(Join(fileLines)))
                    /\ pc' = "loop"
                    /\ i' = i + 1)
           /\ (pc' = "rejected") => (tree' = treeBefore)
    ]_vars

\* the second edit has raised after the first has replaced in memory: the
\* file holds what it held
C23_Witness ==
  /\ pc = "rejected"
  /\ error = "TypeError"
  /\ change.type = "partial_update"
  /\ taken = <<Edit(Arr(<<LM>>), Undefined, Arr(<<LX>>)),
               Edit(Arr(<<NotAString>>), Undefined, Arr(<<LX>>))>>
  /\ fileLines = <<LX, LPadM>>
  /\ tree = treeBefore
  /\ tree[change.path].text = TextA

\* C24: a delete only ever removes a plain file: when its path names a
\* directory, empty or not, every directory of the tree the record found is
\* still a directory of the tree after it.
C24_DeleteRemovesNoDirectory ==
  (change.type = "delete" /\ IsDirectory(treeBefore, change.path))
    => \A p \in DOMAIN treeBefore :
         IsDirectory(treeBefore, p) => IsDirectory(tree, p)

\* the file at path holds text
Holds(t, path, text) == IsFile(t, path) /\ t[path].text = text

\* C25: rename_move copies, then deletes: in every state of a rename_move
\* between two distinct paths the content old_path had is held by old_path
\* or by new_path, so old_path is never gone before new_path is written;
\* and when the storage backend fails between the write and the removal the
\* error propagates and both paths hold the original content.
C25_CopyThenDelete ==
  [][ (/\ change'.type = "rename_move"
       /\ change'.old_path # change'.new_path
       /\ IsFile(treeBefore', change'.old_path))
        => LET content == treeBefore'[change'.old_path].text
           IN  /\ \/ Holds(tree', change'.old_path, content)
                  \/ Holds(tree', change'.new_path, content)
               /\ (pc = "rm_remove" /\ pc' = "rejected")
                    => (/\ error' # ""
                        /\ i' = i
                        /\ Holds(tree', change'.old_path, content)
                        /\ Holds(tree', change'.new_path, content))
    ]_vars

\* the removal has failed after the write: two copies
C25_Witness ==
  /\ pc = "rejected"
  /\ error = "StorageError"
  /\ change.type = "rename_move"
  /\ change.old_path = <<"f">>
  /\ change.new_path = <<"d", "f">>
  /\ Holds(treeBefore, <<"f">>, TextA)
  /\ ~Exists(treeBefore, <<"d", "f">>)
  /\ Holds(tree, <<"f">>, TextA)
  /\ Holds(tree, <<"d", "f">>, TextA)

\* C26: in partial_update only the absence of the target file is skipped
\* without an error: when opening the target fails for any other reason,
\* the path names a directory or the backend refuses, the error propagates
\* and the batch is rejected.
C26_OnlyAbsenceSkipped ==
  [][ (/\ pc = "pu_open"
       /\ Len(parts) = 1
       /\ pc' # "pu_read"
       /\ Exists(tree, target))
        => /\ pc' = "rejected"
           /\ error' # ""
           /\ i' = i
    ]_vars

\* the path a record writes a file at
WrittenPath(c) == IF c.type = "rename_move" THEN c.new_path ELSE c.path

\* C27: create, complete_update and rename_move (for new_path) do not need
\* the directories above the file to be there: when some or all of them are
\* missing the record does not fail for that, afterwards every directory on
\* the path exists, and every entry the tree had, other than the paths the
\* record names, is as it was.
C27_DirectoriesOnDemand ==
  /\ (/\ pc \in {"loop", "done"}
      /\ i > 1
      /\ change.type \in {"create", "complete_update", "rename_move"})
       => /\ \A a \in Ancestors(WrittenPath(change)) : IsDirectory(tree, a)
          /\ change.type # "rename_move" => IsFile(tree, change.path)
          /\ \A n \in DOMAIN treeBefore :
               n \notin {change.path, change.old_path, change.new_path}
                 => (n \in DOMAIN tree /\ tree[n] = treeBefore[n])
  /\ (/\ pc = "rejected"
      /\ change.type \in {"create", "complete_update", "rename_move"}
      /\ error # "StorageError")
       => \/ Blocked(treeBefore, WrittenPath(change))
          \/ change.type = "rename_move" /\ ~IsFile(treeBefore, change.old_path)

\* "d" was there with its entry "d/f", "d/e" was not: the file is made and
\* "d/f" is as it was
C27_Witness ==
  /\ JustCompleted("create")
  /\ change.path = DeepPath
  /\ IsDirectory(treeBefore, <<"d">>)
  /\ ~Exists(treeBefore, <<"d", "e">>)
  /\ IsDirectory(tree, <<"d", "e">>)
  /\ IsFile(tree, DeepPath)
  /\ Holds(tree, <<"d", "f">>, TextB)

\* C28: for every finite batch, every storage call returning or failing in
\* the end, applyJsonChanges finishes: it resolves, and then the loop has
\* passed every record and no error was raised, or it rejects with the
\* first error raised; it does not stop anywhere else, and whenever the loop
\* comes back for a record its position has moved on by one, so that no
\* record is taken twice.
C28_Finishes ==
  /\ <>(pc \in {"done", "rejected"})
  /\ [](pc = "done" => (i = nChanges + 1 /\ error = ""))
  /\ [](pc = "rejected" => (error # "" /\ (envelope = "array" => i <= nChanges)))
  /\ [][(pc' = "loop" /\ pc # "validate") => i' = i + 1]_vars
  /\ [][(pc \in {"done", "rejected"}) => UNCHANGED vars]_vars

\* the batch is rejected at its second record, the first one applied
C28_Witness ==
  /\ pc = "rejected"
  /\ nChanges >= 2
  /\ i = 2
  /\ change.type = "delete"
  /\ error = "NotFoundError"
  /\ IsFile(treeBefore, change.path) = FALSE
  /\ lastCall = 2

\* C29: a record that fails because its target is missing leaves the
\* storage tree exactly as it found it: after a delete of a path that is
\* not there, or a rename_move whose old_path is not there, no file is
\* created, changed or removed and no directory is created.
C29_MissingTargetLeavesTree ==
  (/\ pc = "rejected"
   /\ error = "NotFoundError"
   /\ change.type \in {"delete", "rename_move"})
    => tree = treeBefore

\* C30: a rename_move onto a new_path that names a file already, another
\* one than old_path, raises no error and replaces it: afterwards new_path
\* holds the content old_path had and nothing of what it held before,
\* old_path is gone, and every other entry of the tree is as it was.
C30_RenameOverwrites ==
  (/\ change.type = "rename_move"
   /\ change.old_path # change.new_path
   /\ IsFile(treeBefore, change.old_path)
   /\ IsFile(treeBefore, change.new_path))
    => /\ (pc \in {"loop", "done"} /\ i > 1)
            => /\ Holds(tree, change.new_path, treeBefore[change.old_path].text)
               /\ DOMAIN tree = DOMAIN treeBefore \ {change.old_path}
               /\ \A n \in DOMAIN tree :
                    n # change.new_path => tree[n] = treeBefore[n]
       /\ pc = "rejected" => error = "StorageError"

\* "d/f" held another text and now holds the text of "f"
C30_Witness ==
  /\ JustCompleted("rename_move")
  /\ change.old_path = <<"f">>
  /\ change.new_path = <<"d", "f">>
  /\ Holds(treeBefore, <<"f">>, TextA)
  /\ IsFile(treeBefore, <<"d", "f">>)
  /\ treeBefore[<<"d", "f">>].text # TextA
  /\ Holds(tree, <<"d", "f">>, TextA)
  /\ ~Exists(tree, <<"f">>)
  /\ error = ""

====
